---- MODULE Spec2Model ----
(***************************************************************************)
(* Model of brFinance/scraper/bacen/search.py: the three request classes   *)
(* SearchCurrencyPrice, SearchAvailableCurrencies, SearchAllCurrenciesPrices*)
(* and the parsing / normalisation they apply to what the Central Bank     *)
(* endpoints answer.                                                       *)
(*                                                                         *)
(* Text is a sequence of one-character strings, so that str(), zfill(),    *)
(* str.replace(), strftime() and the date / number parsers are computed    *)
(* rather than assumed.  A float is an integer part and hundredths.        *)
(* Python runs with its default semantics: assert statements are executed. *)
(***************************************************************************)
EXTENDS Integers, Sequences, FiniteSets, TLC

\* ------------------------------------------------------------------ bounds
\* last moment the clock reaches (two moments per calendar day)
MaxNow == 2
\* date arguments of the range query are days 0..MaxDay after the epoch day
MaxDay == 1
\* rows in a CSV body
MaxRows == 3
\* elements in an HTML body
MaxElems == 2

\* ------------------------------------------------------------------- text
\* Python values held in a table cell: an int v, a float of integer part v and
\* f hundredths, a str of text s, the float nan, and None
PyInt(n) == [t |-> "int", v |-> n, f |-> 0, s |-> <<>>]
PyFloat(n, h) == [t |-> "float", v |-> n, f |-> h, s |-> <<>>]
PyText(s) == [t |-> "str", v |-> 0, f |-> 0, s |-> s]
NaN == [t |-> "nan", v |-> 0, f |-> 0, s |-> <<>>]
None == [t |-> "none", v |-> 0, f |-> 0, s |-> <<>>]
\* the datetime64 "not a time" value
NaT == [y |-> 0, m |-> 0, d |-> 0]

DigitChars == <<"0", "1", "2", "3", "4", "5", "6", "7", "8", "9">>

IsDigit(c) == \E i \in 1..10 : DigitChars[i] = c

DigitVal(c) == (CHOOSE i \in 1..10 : DigitChars[i] = c) - 1

AllDigits(s) == \A i \in 1..Len(s) : IsDigit(s[i])

\* value of a sequence of digit characters, most significant first
RECURSIVE DigitsVal(_)
DigitsVal(s) ==
    IF s = <<>> THEN 0
    ELSE 10 * DigitsVal(SubSeq(s, 1, Len(s) - 1)) + DigitVal(s[Len(s)])

\* str(n) of a non-negative int: its decimal digits, no padding
RECURSIVE IntStr(_)
IntStr(n) ==
    IF n < 10 THEN <<DigitChars[n + 1]>>
    ELSE Append(IntStr(n \div 10), DigitChars[(n % 10) + 1])

\* n as exactly w digits, zero padded (strftime fields %d %m %Y)
RECURSIVE Pad(_, _)
Pad(s, w) == IF Len(s) >= w THEN s ELSE Pad(<<"0">> \o s, w)

\* str.zfill(w): zeros on the left up to width w, longer text left alone
ZFill(s, w) == Pad(s, w)

\* str.replace(old, new) for one-character old and new
Replace(s, old, new) == [i \in 1..Len(s) |-> IF s[i] = old THEN new ELSE s[i]]

\* position of the first c in s, 0 when absent
IndexOf(s, c) ==
    IF \E i \in 1..Len(s) : s[i] = c
    THEN CHOOSE i \in 1..Len(s) : s[i] = c /\ \A j \in 1..(i - 1) : s[j] # c
    ELSE 0

\* pattern in text, both sequences
Contains(text, pat) ==
    \E i \in 1..(Len(text) - Len(pat) + 1) :
        SubSeq(text, i, i + Len(pat) - 1) = pat

\* ---------------------------------------------------------------- calendar
IsLeap(y) == (y % 4 = 0 /\ y % 100 # 0) \/ y % 400 = 0

DaysInMonth(y, m) ==
    IF m = 2 THEN (IF IsLeap(y) THEN 29 ELSE 28)
    ELSE IF m \in {4, 6, 9, 11} THEN 30 ELSE 31

MkDate(y, m, d) == [y |-> y, m |-> m, d |-> d]

\* the calendar day of day number 0 and of moment 0
EpochDate == MkDate(2021, 12, 30)

NextDate(dt) ==
    IF dt.d < DaysInMonth(dt.y, dt.m) THEN MkDate(dt.y, dt.m, dt.d + 1)
    ELSE IF dt.m < 12 THEN MkDate(dt.y, dt.m + 1, 1)
    ELSE MkDate(dt.y + 1, 1, 1)

\* the datetime.date object of day number n
RECURSIVE DateOfDay(_)
DateOfDay(n) == IF n = 0 THEN EpochDate ELSE NextDate(DateOfDay(n - 1))

\* the calendar day a moment (a datetime.datetime) falls on
DateOfMoment(t) == DateOfDay(t \div 2)

\* order of dates: datetime64 values compare chronologically
DateKey(dt) == dt.y * 10000 + dt.m * 100 + dt.d

\* date.strftime("%d/%m/%Y")
StrfDMY(dt) ==
    Pad(IntStr(dt.d), 2) \o <<"/">> \o Pad(IntStr(dt.m), 2) \o <<"/">> \o Pad(IntStr(dt.y), 4)

\* date.strftime("%Y%m%d")
StrfYMD(dt) == Pad(IntStr(dt.y), 4) \o Pad(IntStr(dt.m), 2) \o Pad(IntStr(dt.d), 2)

\* a calendar date that exists and that datetime64[ns] can hold
ValidDate(y, m, d) ==
    /\ m \in 1..12
    /\ d \in 1..DaysInMonth(y, m)
    /\ y * 10000 + m * 100 + d >= 16770922
    /\ y * 10000 + m * 100 + d <= 22620411

DateOrNaT(y, m, d) == IF ValidDate(y, m, d) THEN MkDate(y, m, d) ELSE NaT

\* pd.to_datetime(text, format="%d%m%Y", errors="coerce") on text of at least
\* 8 characters: two digits of day, two of month, four of year, nothing else
ParseDMY8(s) ==
    IF Len(s) = 8 /\ AllDigits(s)
    THEN DateOrNaT(DigitsVal(SubSeq(s, 5, 8)), DigitsVal(SubSeq(s, 3, 4)),
                   DigitsVal(SubSeq(s, 1, 2)))
    ELSE NaT

\* pd.to_datetime(text, format="%d/%m/%Y", errors="coerce"): day and month of
\* one or two digits, a four digit year, separated by slashes
ParseDMYSlash(s) ==
    LET p == IndexOf(s, "/")
        rest == IF p = 0 THEN <<>> ELSE SubSeq(s, p + 1, Len(s))
        q == IndexOf(rest, "/")
        dd == IF p = 0 THEN <<>> ELSE SubSeq(s, 1, p - 1)
        mm == IF q = 0 THEN <<>> ELSE SubSeq(rest, 1, q - 1)
        yy == IF q = 0 THEN <<>> ELSE SubSeq(rest, q + 1, Len(rest))
    IN IF /\ p # 0 /\ q # 0
          /\ Len(dd) \in 1..2 /\ Len(mm) \in 1..2 /\ Len(yy) = 4
          /\ AllDigits(dd) /\ AllDigits(mm) /\ AllDigits(yy)
       THEN DateOrNaT(DigitsVal(yy), DigitsVal(mm), DigitsVal(dd))
       ELSE NaT

\* ----------------------------------------------------------------- numbers
\* A float is its integer part and its hundredths: 5.25 is 5 and 25.

\* the two-decimal fraction digits f as hundredths: "2" is 20, "25" is 25
FracVal(f) == IF Len(f) = 1 THEN 10 * DigitsVal(f) ELSE DigitsVal(f)

\* text of the shape digits [sep digits], at most two decimals
IsDecimal(s, sep) ==
    LET p == IndexOf(s, sep)
    IN IF p = 0 THEN Len(s) >= 1 /\ AllDigits(s)
       ELSE /\ p >= 2 /\ AllDigits(SubSeq(s, 1, p - 1))
            /\ Len(s) - p \in 1..2 /\ AllDigits(SubSeq(s, p + 1, Len(s)))

DecimalVal(s, sep) ==
    LET p == IndexOf(s, sep)
    IN IF p = 0 THEN PyFloat(DigitsVal(s), 0)
       ELSE PyFloat(DigitsVal(SubSeq(s, 1, p - 1)), FracVal(SubSeq(s, p + 1, Len(s))))

\* str(x) of a float: shortest digits that read back, at least one decimal
FloatStr(n, h) ==
    IntStr(n) \o <<".">> \o (IF h % 10 = 0 THEN IntStr(h \div 10) ELSE Pad(IntStr(h), 2))

NanText == <<"n", "a", "n">>

\* str(x), what Series.astype(str) stores for each cell
PyStr(x) ==
    CASE x.t = "int" -> IntStr(x.v)
      [] x.t = "float" -> FloatStr(x.v, x.f)
      [] x.t = "nan" -> NanText
      [] x.t = "none" -> <<"N", "o", "n", "e">>
      [] OTHER -> x.s

\* ---------------------------------------------------------------- read_csv
\* pd.read_csv(..., decimal=",") infers one type per column from its texts:
\* all integers -> int64; integers, comma decimals and empty cells -> float64
\* (empty is nan); anything else -> object, the texts kept, empty cells nan.
ReadCsvColumn(col) ==
    IF col # <<>> /\ \A i \in 1..Len(col) : Len(col[i]) >= 1 /\ AllDigits(col[i])
    THEN [i \in 1..Len(col) |-> PyInt(DigitsVal(col[i]))]
    ELSE IF \A i \in 1..Len(col) : col[i] = <<>> \/ IsDecimal(col[i], ",")
    THEN [i \in 1..Len(col) |->
             IF col[i] = <<>> THEN NaN ELSE DecimalVal(col[i], ",")]
    ELSE [i \in 1..Len(col) |-> IF col[i] = <<>> THEN NaN ELSE PyText(col[i])]

Column(rows, name) == [i \in 1..Len(rows) |-> rows[i][name]]

\* ------------------------------------------------------------- data frames
\* A frame is [index_name, index, cols, data, ids]: index the row keys, cols the
\* column names in order, data[c] the cells of column c, ids[i] the position in
\* the response of the row now at position i.
Positions(n) == [i \in 1..n |-> i]

EmptyColumn == <<>>

\* column names; the accented letters of the source are written unaccented
RangeNames == <<"Date", "Tipo", "Moeda", "Compra", "Venda">>

SnapshotColumns ==
    <<"Reference Date", "Codigo", "Tipo", "Moeda",
      "Cotacoes em Real - Compra", "Cotacoes em Real - Venda",
      "Paridade - Compra", "Paridade - Venda">>

SnapshotNumeric ==
    <<"Cotacoes em Real - Compra", "Cotacoes em Real - Venda",
      "Paridade - Compra", "Paridade - Venda">>

Range(s) == {s[i] : i \in 1..Len(s)}

\* pd.read_csv(url, names=names[, index_col=0]) of a body of rows of texts
ReadCsv(rows, names, index_col) ==
    [index_name |-> IF index_col THEN names[1] ELSE "",
     index |-> IF index_col THEN ReadCsvColumn(Column(rows, names[1]))
               ELSE [i \in 1..Len(rows) |-> PyInt(i - 1)],
     cols |-> IF index_col THEN Tail(names) ELSE names,
     data |-> [c \in (IF index_col THEN Range(Tail(names)) ELSE Range(names)) |->
                  ReadCsvColumn(Column(rows, c))],
     ids |-> Positions(Len(rows))]

\* pd.DataFrame(columns=columns): no rows, every column present
EmptyFrame(columns) ==
    [index_name |-> "", index |-> <<>>, cols |-> columns,
     data |-> [c \in Range(columns) |-> EmptyColumn], ids |-> <<>>]

\* Series.astype(str).str.replace(',', '.')
StrReplaceColumn(col) == [i \in 1..Len(col) |-> Replace(PyStr(col[i]), ",", ".")]

\* text pd.to_numeric cannot read
Unparsable(t) == ~(t = NanText \/ IsDecimal(t, "."))

NumericCell(t) ==
    IF Unparsable(t) \/ t = NanText THEN NaN ELSE DecimalVal(t, ".")

\* pd.to_numeric(col, errors=errors): [raised, values]; errors="raise" is the
\* default of pandas
ToNumeric(col, errors) ==
    [raised |-> errors = "raise" /\ \E i \in 1..Len(col) : Unparsable(col[i]),
     values |-> [i \in 1..Len(col) |-> NumericCell(col[i])]]

\* the rows of frame df taken in the order p (a sequence of positions)
Reorder(df, p) ==
    [df EXCEPT !.index = [i \in 1..Len(p) |-> df.index[p[i]]],
               !.data = [c \in DOMAIN df.data |->
                            [i \in 1..Len(p) |-> df.data[c][p[i]]]],
               !.ids = [i \in 1..Len(p) |-> df.ids[p[i]]]]

Perms(n) == {p \in [1..n -> 1..n] : \A i, j \in 1..n : p[i] = p[j] => i = j}

\* The orders DataFrame.sort_index() can produce on a datetime index: the rows
\* with a date first, ascending, then the NaT rows in the order they had
\* (na_position="last").  The default sort kind is quicksort, which promises
\* nothing about rows of equal date: every order of them is possible.
SortOrders(index) ==
    LET n == Len(index)
        k == Cardinality({i \in 1..n : index[i] # NaT})
    IN {p \in Perms(n) :
          /\ \A i \in 1..k : index[p[i]] # NaT
          /\ \A i \in 1..(k - 1) : DateKey(index[p[i]]) <= DateKey(index[p[i + 1]])
          /\ \A i \in (k + 1)..(n - 1) : p[i] < p[i + 1]}

\* ------------------------------------------------------ SearchCurrencyPrice
\* the comparison weakened to >=
RangeValidLax(initial_date, final_date) == final_date >= initial_date

\* __init__: assert final_date > initial_date (dates are day numbers)
RangeValid(initial_date, final_date) == final_date > initial_date

\* _clean_data, the index: to_datetime([str(x).zfill(8) ...], "%d%m%Y", coerce)
RangeIndex(index) == [i \in 1..Len(index) |-> ParseDMY8(ZFill(PyStr(index[i]), 8))]

\* _clean_data, Compra and Venda: pd.to_numeric(astype(str).str.replace(...))
\* with no errors argument
RangeNumeric(col) == ToNumeric(StrReplaceColumn(col), "raise")

\* _clean_data up to the sort
RangeConverted(df) ==
    [df EXCEPT !.index = RangeIndex(df.index),
               !.data = [c \in DOMAIN df.data |->
                            IF c \in {"Compra", "Venda"}
                            THEN RangeNumeric(df.data[c]).values
                            ELSE df.data[c]]]

\* _clean_data raises ValueError from pd.to_numeric
RangeCleanRaises(df) ==
    RangeNumeric(df.data["Compra"]).raised \/ RangeNumeric(df.data["Venda"]).raised

\* the sort left out
SortIndexSkipped(df) == {df}

\* df.sort_index(inplace=True): the frames it can leave
SortIndex(df) == {Reorder(df, p) : p \in SortOrders(df.index)}

\* _clean_data: the frames it can return when it does not raise
RangeClean(df) == SortIndex(RangeConverted(df))

\* the codes compared as numbers instead of as text
CodeExistsAsNumber(df, currency_code) ==
    \E i \in 1..Len(df) :
        /\ df[i].Code.t = "str" /\ AllDigits(df[i].Code.s)
        /\ DigitsVal(df[i].Code.s) = currency_code

\* _check_if_code_exists: bool(len(df[df["Code"] == str(self.currency_code)]))
CodeExists(df, currency_code) ==
    \E i \in 1..Len(df) : df[i].Code = PyText(IntStr(currency_code))

\* ------------------------------------------------ SearchAvailableCurrencies
\* _clean_data: soup.find_all("option"), then (get_text(), get("value")) of
\* each, as records with columns Currency and Code
IsOption(e) == e.tag = "option"

\* soup.find in place of soup.find_all: the first option only
FindFirstOption(body) ==
    IF SelectSeq(body, IsOption) = <<>> THEN <<>> ELSE <<Head(SelectSeq(body, IsOption))>>

FindAllOptions(body) == SelectSeq(body, IsOption)

CatalogClean(body) ==
    LET options == FindAllOptions(body)
    IN [i \in 1..Len(options) |->
           [Currency |-> options[i].text, Code |-> options[i].value]]

\* ------------------------------------------------ SearchAllCurrenciesPrices
\* __init__: assert reference_date <= datetime.datetime.now()
ReferenceValid(reference_date, t) == reference_date <= t

\* str(exp) of the exceptions pd.read_csv(url) raises
HttpErrorText(status, reason) == <<"HTTP Error ">> \o IntStr(status) \o <<": ">> \o reason

NotFoundText == <<"HTTP Error ", "4", "0", "4", ": ", "Not Found">>

\* the test loosened to any HTTP error
IsHttpError(text) == Contains(text, <<"HTTP Error ">>)

\* _fetch_data: 'HTTP Error 404: Not Found' in str(exp)
IsNotFound(text) == Contains(text, NotFoundText)

\* _clean_data: the reference date column parsed and made the index, the four
\* rate columns through pd.to_numeric(..., errors='coerce')
SnapshotClean(df) ==
    [index_name |-> "Reference Date",
     index |-> [i \in 1..Len(df.data["Reference Date"]) |->
                   ParseDMYSlash(PyStr(df.data["Reference Date"][i]))],
     cols |-> SelectSeq(df.cols, LAMBDA c : c # "Reference Date"),
     data |-> [c \in DOMAIN df.data \ {"Reference Date"} |->
                  IF c \in Range(SnapshotNumeric)
                  THEN ToNumeric(StrReplaceColumn(df.data[c]), "coerce").values
                  ELSE df.data[c]],
     ids |-> df.ids]

\* -------------------------------------------------------------- environment
\* What the endpoints can answer.  requests.get raises on a transport failure
\* and returns every HTTP response, whatever its status; pd.read_csv(url)
\* raises URLError on a transport failure and HTTPError on an error status,
\* str(HTTPError) being "HTTP Error <status>: <reason phrase sent>".
Elem(tag, text, value) == [tag |-> tag, text |-> text, value |-> value]

HtmlElems ==
    {Elem("option", "DOLAR DOS EUA", PyText(<<"2", "2", "0">>)),
     Elem("option", "EURO", PyText(<<"9", "7", "8">>)),
     Elem("option", "DOLAR ANTIGO", PyText(<<"0", "2", "2", "0">>)),
     Elem("option", "Selecione", None),
     Elem("p", "Erro interno", None)}

SeqsUpTo(S, n) == UNION {[1..k -> S] : k \in 0..n}

HtmlBodies == SeqsUpTo(HtmlElems, MaxElems)

NoResp == [kind |-> "none", status |-> 0, reason |-> <<>>, malformed |-> FALSE, body |-> <<>>]

Resp(kind, status, reason, malformed, body) ==
    [kind |-> kind, status |-> status, reason |-> reason, malformed |-> malformed,
     body |-> body]

CatalogResponses ==
    {Resp("conn_error", 0, <<>>, FALSE, <<>>)}
    \cup {Resp("page", st, <<>>, FALSE, b) : st \in {200, 500}, b \in HtmlBodies}

HttpErrors ==
    {Resp("http_error", 404, <<"Not Found">>, FALSE, <<>>),
     Resp("http_error", 404, <<>>, FALSE, <<>>),
     Resp("http_error", 500, <<"Internal Server Error">>, FALSE, <<>>)}

RangeRows ==
    {[Date |-> <<"0", "4", "0", "1", "2", "0", "2", "1">>, Tipo |-> <<"A">>, Moeda |-> <<"U", "S", "D">>, Compra |-> <<"5", ",", "2", "5">>, Venda |-> <<"5", ",", "2", "6">>],
     [Date |-> <<"3", "1", "1", "2", "2", "0", "2", "0">>, Tipo |-> <<"A">>, Moeda |-> <<"U", "S", "D">>, Compra |-> <<"5", ",", "1", "9">>, Venda |-> <<"5", ",", "2">>],
     [Date |-> <<"9", "9", "9", "9", "9", "9", "9", "9">>, Tipo |-> <<"A">>, Moeda |-> <<"U", "S", "D">>, Compra |-> <<"5", ",", "3">>, Venda |-> <<"5", ",", "3", "1">>],
     [Date |-> <<"0", "4", "0", "1", "2", "0", "2", "1">>, Tipo |-> <<"A">>, Moeda |-> <<"U", "S", "D">>, Compra |-> <<"N", "/", "D">>, Venda |-> <<"5", ",", "3">>],
     [Date |-> <<>>, Tipo |-> <<"A">>, Moeda |-> <<"U", "S", "D">>, Compra |-> <<>>, Venda |-> <<"7">>],
     [Date |-> <<"0", "5", "0", "1", "2", "0", "2", "1">>, Tipo |-> <<"A">>, Moeda |-> <<"U", "S", "D">>, Compra |-> <<"5", ".", "2", "5">>, Venda |-> <<"5", ",", "2", "7">>]}

SnapshotRows ==
    {(("Reference Date" :> <<"0", "4", "/", "0", "1", "/", "2", "0", "2", "1">>) @@ ("Codigo" :> <<"2", "2", "0">>) @@ ("Tipo" :> <<"A">>) @@ ("Moeda" :> <<"U", "S", "D">>) @@ ("Cotacoes em Real - Compra" :> <<"5", ",", "2", "5">>) @@ ("Cotacoes em Real - Venda" :> <<"5", ",", "2", "6">>) @@ ("Paridade - Compra" :> <<"1">>) @@ ("Paridade - Venda" :> <<"1">>)),
     (("Reference Date" :> <<"0", "4", "/", "0", "1", "/", "2", "0", "2", "1">>) @@ ("Codigo" :> <<"9", "7", "8">>) @@ ("Tipo" :> <<"B">>) @@ ("Moeda" :> <<"E", "U", "R">>) @@ ("Cotacoes em Real - Compra" :> <<"6", ",", "4">>) @@ ("Cotacoes em Real - Venda" :> <<"6", ",", "4", "1">>) @@ ("Paridade - Compra" :> <<"1", ",", "2", "2">>) @@ ("Paridade - Venda" :> <<"1", ",", "2", "3">>)),
     (("Reference Date" :> <<"3", "1", "/", "0", "2", "/", "2", "0", "2", "1">>) @@ ("Codigo" :> <<"4", "2", "5">>) @@ ("Tipo" :> <<"A">>) @@ ("Moeda" :> <<"C", "H", "F">>) @@ ("Cotacoes em Real - Compra" :> <<"N", "/", "D">>) @@ ("Cotacoes em Real - Venda" :> <<>>) @@ ("Paridade - Compra" :> <<"1", ",", "1">>) @@ ("Paridade - Venda" :> <<"x">>))}

CsvResponses(rows) ==
    {Resp("url_error", 0, <<>>, FALSE, <<>>), Resp("csv", 200, <<>>, TRUE, <<>>)}
    \cup HttpErrors
    \cup {Resp("csv", 200, <<>>, FALSE, b) : b \in SeqsUpTo(rows, MaxRows)}

\* str(exp) for the exception a response makes pd.read_csv raise
ExceptionText(r) ==
    CASE r.kind = "http_error" -> HttpErrorText(r.status, r.reason)
      [] r.kind = "url_error" -> <<"<urlopen error>">>
      [] OTHER -> <<"Error tokenizing data">>

ExceptionType(r) ==
    CASE r.kind = "http_error" -> "HTTPError"
      [] r.kind = "url_error" -> "URLError"
      [] r.kind = "conn_error" -> "ConnectionError"
      [] OTHER -> "ParserError"

\* --------------------------------------------------------------------- state
VARIABLES
    now,                     \* the clock: datetime.datetime.now(), a moment
    default_reference_date,  \* the default of __init__'s reference_date
    pc,                      \* "idle", "ready" (constructed), "checked", "done"
    op,                      \* the class in use: "range", "catalog", "snapshot"
    args,                    \* the constructor's arguments as passed
    self,                    \* the object's attributes
    reqs,                    \* the HTTP requests this invocation has issued
    resp,                    \* the last HTTP response this invocation received
    result                   \* what the invocation returned or raised

vars == <<now, default_reference_date, pc, op, args, self, reqs, resp, result>>

Codes == {220, 999}

NoArgs == [code |-> 0, initial |-> 0, final |-> 0, omitted |-> FALSE, ref |-> 0]

NoSelf ==
    [currency_code |-> 0, initial_date |-> <<>>, final_date |-> <<>>,
     reference_date |-> <<>>]

NoResult == [kind |-> "none", error |-> "", msg |-> "", frame |-> <<>>]

Raised(type, msg) == [kind |-> "error", error |-> type, msg |-> msg, frame |-> <<>>]

Returned(frame) == [kind |-> "table", error |-> "", msg |-> "", frame |-> frame]

Req(kind, code, ini, fim, token) ==
    [kind |-> kind, ChkMoeda |-> code, DATAINI |-> ini, DATAFIM |-> fim, token |-> token]

\* the request sent again after the first
GetWithRetry(rs, r) == Append(Append(rs, r), r)

\* one HTTP request goes out: requests.get(url), pd.read_csv(url)
Get(rs, r) == Append(rs, r)

\* the module is imported at moment 0: the def statements run, and with them
\* the default value datetime.datetime.now() of reference_date
Init ==
    /\ now = 0
    /\ default_reference_date = 0
    /\ pc = "idle"
    /\ op = "none"
    /\ args = NoArgs
    /\ self = NoSelf
    /\ reqs = <<>>
    /\ resp = NoResp
    /\ result = NoResult

\* time passes between invocations (only a constructor reads the clock)
Tick ==
    /\ pc = "idle"
    /\ now < MaxNow
    /\ now' = now + 1
    /\ UNCHANGED <<default_reference_date, pc, op, args, self, reqs, resp, result>>

\* SearchCurrencyPrice(currency_code, initial_date, final_date)
NewSearchCurrencyPrice(currency_code, initial_date, final_date) ==
    /\ pc = "idle"
    /\ op' = "range"
    /\ args' = [NoArgs EXCEPT !.code = currency_code, !.initial = initial_date,
                              !.final = final_date]
    /\ IF RangeValid(initial_date, final_date)
       THEN /\ self' = [NoSelf EXCEPT
                           !.currency_code = currency_code,
                           !.initial_date = StrfDMY(DateOfDay(initial_date)),
                           !.final_date = StrfDMY(DateOfDay(final_date))]
            /\ pc' = "ready"
            /\ result' = NoResult
       ELSE /\ self' = NoSelf
            /\ pc' = "done"
            /\ result' = Raised("AssertionError", "Final date is earlier than initial date")
    /\ UNCHANGED <<now, default_reference_date, reqs, resp>>

\* SearchAvailableCurrencies().get_available_currencies() on response r
AvailableCurrencies(r) ==
    IF r.kind = "conn_error" THEN Raised(ExceptionType(r), "")
    ELSE Returned(CatalogClean(r.body))

\* every response to the catalog request with its outcome
CatalogOutcomes == {[resp |-> r, result |-> AvailableCurrencies(r)] : r \in CatalogResponses}

\* get_data, first statement: assert self._check_if_code_exists()
CheckIfCodeExists ==
    /\ pc = "ready" /\ op = "range"
    /\ \E o \in CatalogOutcomes :
          LET got == o.result
          IN /\ reqs' = Get(reqs, Req("catalog", <<>>, <<>>, <<>>, <<>>))
             /\ resp' = o.resp
             /\ IF got.kind = "error"
                THEN pc' = "done" /\ result' = got
                ELSE IF CodeExists(got.frame, self.currency_code)
                THEN pc' = "checked" /\ result' = NoResult
                ELSE /\ pc' = "done"
                     /\ result' = Raised("AssertionError", "Currency code does not exist")
    /\ UNCHANGED <<now, default_reference_date, op, args, self>>

\* _fetch_data then _clean_data on response r: what get_data can end with
FetchedAndCleaned(r) ==
    IF r.kind # "csv" THEN {Raised(ExceptionType(r), "")}
    ELSE IF r.malformed
    THEN {Raised("Exception", "An error occurred when parsing data")}
    ELSE LET df == ReadCsv(r.body, RangeNames, TRUE)
         IN IF RangeCleanRaises(df)
            THEN {Raised("ValueError", "Unable to parse string")}
            ELSE {Returned(f) : f \in RangeClean(df)}

\* every response to the range request with every outcome it can have
RangeOutcomes ==
    UNION {{[resp |-> r, result |-> x] : x \in FetchedAndCleaned(r)} :
             r \in CsvResponses(RangeRows)}

\* get_data, the rest: _fetch_data then _clean_data
FetchAndClean ==
    /\ pc = "checked" /\ op = "range"
    /\ \E o \in RangeOutcomes :
          /\ reqs' = Get(reqs, Req("range", IntStr(self.currency_code),
                                   self.initial_date, self.final_date, <<>>))
          /\ resp' = o.resp
          /\ result' = o.result
    /\ pc' = "done"
    /\ UNCHANGED <<now, default_reference_date, op, args, self>>

\* SearchAvailableCurrencies(): the class defines no __init__
NewSearchAvailableCurrencies ==
    /\ pc = "idle"
    /\ op' = "catalog"
    /\ pc' = "ready"
    /\ UNCHANGED <<now, default_reference_date, args, self, reqs, resp, result>>

\* SearchAvailableCurrencies.get_available_currencies
GetAvailableCurrencies ==
    /\ pc = "ready" /\ op = "catalog"
    /\ \E o \in CatalogOutcomes :
          /\ reqs' = Get(reqs, Req("catalog", <<>>, <<>>, <<>>, <<>>))
          /\ resp' = o.resp
          /\ result' = o.result
    /\ pc' = "done"
    /\ UNCHANGED <<now, default_reference_date, op, args, self>>

\* the reference date __init__ works with: the argument, or the default
ReferenceDate(omitted, ref) == IF omitted THEN default_reference_date ELSE ref

\* SearchAllCurrenciesPrices(reference_date) and SearchAllCurrenciesPrices()
Construct(omitted, ref) ==
    /\ pc = "idle"
    /\ op' = "snapshot"
    /\ args' = [NoArgs EXCEPT !.omitted = omitted, !.ref = ref]
    /\ IF ReferenceValid(ReferenceDate(omitted, ref), now)
       THEN /\ self' = [NoSelf EXCEPT !.reference_date =
                           StrfYMD(DateOfMoment(ReferenceDate(omitted, ref)))]
            /\ pc' = "ready"
            /\ result' = NoResult
       ELSE /\ self' = NoSelf
            /\ pc' = "done"
            /\ result' = Raised("AssertionError", "Final date is should be earlier than today")
    /\ UNCHANGED <<now, default_reference_date, reqs, resp>>

NewSearchAllCurrenciesPrices ==
    \/ Construct(TRUE, 0)
    \/ \E ref \in 0..(MaxNow + 1) : Construct(FALSE, ref)

\* _fetch_data of SearchAllCurrenciesPrices on response r: [raised, df]
SnapshotFetch(r) ==
    IF r.kind = "csv" /\ ~r.malformed
    THEN [raised |-> FALSE, df |-> ReadCsv(r.body, SnapshotColumns, FALSE)]
    ELSE IF IsNotFound(ExceptionText(r))
    THEN [raised |-> FALSE, df |-> EmptyFrame(SnapshotColumns)]
    ELSE [raised |-> TRUE, df |-> EmptyFrame(SnapshotColumns)]

\* get_prices on response r
Prices(r) ==
    IF SnapshotFetch(r).raised THEN Raised(ExceptionType(r), "")
    ELSE Returned(SnapshotClean(SnapshotFetch(r).df))

\* every response to the snapshot request with its outcome
SnapshotOutcomes == {[resp |-> r, result |-> Prices(r)] : r \in CsvResponses(SnapshotRows)}

\* SearchAllCurrenciesPrices.get_prices
GetPrices ==
    /\ pc = "ready" /\ op = "snapshot"
    /\ \E o \in SnapshotOutcomes :
          /\ reqs' = Get(reqs, Req("snapshot", <<>>, <<>>, <<>>, self.reference_date))
          /\ resp' = o.resp
          /\ result' = o.result
    /\ pc' = "done"
    /\ UNCHANGED <<now, default_reference_date, op, args, self>>

\* the caller has the result; the object and the locals are gone
Return ==
    /\ pc = "done"
    /\ pc' = "idle"
    /\ op' = "none"
    /\ args' = NoArgs
    /\ self' = NoSelf
    /\ reqs' = <<>>
    /\ resp' = NoResp
    /\ result' = NoResult
    /\ UNCHANGED <<now, default_reference_date>>

Next ==
    \/ Tick
    \/ \E c \in Codes, i, f \in 0..MaxDay : NewSearchCurrencyPrice(c, i, f)
    \/ CheckIfCodeExists
    \/ FetchAndClean
    \/ NewSearchAvailableCurrencies
    \/ GetAvailableCurrencies
    \/ NewSearchAllCurrenciesPrices
    \/ GetPrices
    \/ Return

Spec == Init /\ [][Next]_vars

\* ---------------------------------------------------------------- properties
\* C1: a range query built with final_date <= initial_date (equal dates
\* included) fails with "Final date is earlier than initial date", and no HTTP
\* request has been issued when it fails.
C1_InvalidRangeFailsBeforeAnyRequest ==
    (op = "range" /\ args.final <= args.initial) =>
        /\ pc = "done"
        /\ result = Raised("AssertionError", "Final date is earlier than initial date")
        /\ reqs = <<>>

C1_Witness ==
    /\ op = "range" /\ args.final = args.initial
    /\ result.kind = "error" /\ reqs = <<>>

\* C2: in get_data the range request is the second request, after the catalog
\* request; and when no option of the catalog page carries the requested code
\* as text, get_data fails with "Currency code does not exist" after exactly
\* one request.
C2_UnknownCodeFailsAfterCatalogOnly ==
    op = "range" =>
        /\ \A i \in 1..Len(reqs) :
              reqs[i].kind = "range" => (i = 2 /\ reqs[1].kind = "catalog")
        /\ ( /\ resp.kind = "page"
             /\ \A i \in 1..Len(resp.body) :
                   IsOption(resp.body[i]) => resp.body[i].value # PyText(IntStr(args.code)) )
           => /\ pc = "done"
              /\ result = Raised("AssertionError", "Currency code does not exist")
              /\ Len(reqs) = 1

C2_Witness ==
    /\ op = "range" /\ resp.kind = "page" /\ args.code = 220
    /\ \E i \in 1..Len(resp.body) :
          resp.body[i].value = PyText(<<"0", "2", "2", "0">>)
    /\ result.msg = "Currency code does not exist"
    /\ Len(reqs) = 1

\* C3: a table get_data returns holds each row of the response exactly once,
\* the rows with a date in ascending date order and every row without one (NaT)
\* after them; a row whose key is 99999999 has no date and is kept.
C3_RangeTableSortedAndComplete ==
    (op = "range" /\ result.kind = "table") =>
        LET f == result.frame
            n == Len(resp.body)
        IN /\ Len(f.ids) = n /\ Len(f.index) = n
           /\ \A k \in 1..n : \E i \in 1..n : f.ids[i] = k
           /\ \A i \in 1..n :
                 /\ f.data["Moeda"][i] = PyText(resp.body[f.ids[i]].Moeda)
                 /\ resp.body[f.ids[i]].Date = <<"9", "9", "9", "9", "9", "9", "9", "9">>
                       => f.index[i] = NaT
           /\ \A i, j \in 1..n :
                 i < j =>
                   /\ f.index[i] = NaT => f.index[j] = NaT
                   /\ (f.index[i] # NaT /\ f.index[j] # NaT)
                         => DateKey(f.index[i]) <= DateKey(f.index[j])

C3_Witness ==
    /\ op = "range" /\ result.kind = "table"
    /\ result.frame.ids = <<3, 2, 1>>
    /\ result.frame.index = <<MkDate(2020, 12, 31), MkDate(2021, 1, 4), NaT>>

\* C4: when the snapshot endpoint answers 404, get_prices returns a table with
\* no rows, indexed by "Reference Date" and with the seven other columns.
C4_NotFoundGivesEmptyTable ==
    (op = "snapshot" /\ resp.kind = "http_error" /\ resp.status = 404) =>
        /\ result.kind = "table"
        /\ result.frame.index = <<>>
        /\ result.frame.index_name = "Reference Date"
        /\ result.frame.cols = Tail(SnapshotColumns)

\* C5: get_data never fails because of a Compra or Venda cell: whenever the
\* response parses structurally a table is returned, a cell that is not
\* numeric being nan in it.
C5_BadCellNeverFailsRangeQuery ==
    (op = "range" /\ resp.kind = "csv" /\ ~resp.malformed) => result.kind = "table"

\* C6: get_available_currencies fails when the catalog request fails or is
\* answered with a status other than 200, and get_data then fails with that
\* error instead of looking its code up in the page.
C6_CatalogErrorStatusFails ==
    ( /\ op \in {"catalog", "range"}
      /\ resp.kind = "conn_error" \/ (resp.kind = "page" /\ resp.status # 200) )
    => (result.kind = "error" /\ result.error # "AssertionError")

\* C7: in get_prices every failure of the request other than a 404 answer (a
\* transport failure, another error status, a malformed body) is raised to the
\* caller: no table is returned for it.
C7_OtherFailuresPropagate ==
    ( /\ op = "snapshot"
      /\ resp.kind \in {"url_error", "http_error"} \/ (resp.kind = "csv" /\ resp.malformed)
      /\ ~(resp.kind = "http_error" /\ resp.status = 404) )
    => (pc = "done" /\ result = Raised(ExceptionType(resp), ""))

C7_Witness ==
    /\ op = "snapshot" /\ resp.kind = "http_error" /\ resp.status = 500
    /\ result.kind = "error"

\* C8: SearchAllCurrenciesPrices() built with no reference date uses the day
\* of the construction, and one built with a reference date after the current
\* moment fails.
C8_DefaultIsMomentOfConstruction ==
    op = "snapshot" =>
        /\ args.omitted =>
              /\ result.kind # "error"
              /\ self.reference_date = StrfYMD(DateOfMoment(now))
              /\ \A i \in 1..Len(reqs) : reqs[i].token = StrfYMD(DateOfMoment(now))
        /\ (~args.omitted /\ args.ref > now) =>
              result = Raised("AssertionError", "Final date is should be earlier than today")

\* C9: get_available_currencies returns one record per option element of the
\* page, in document order, its Currency the element's text and its Code the
\* element's value; a page with no option gives an empty table.
C9_CatalogIsOptionsInOrder ==
    (op = "catalog" /\ resp.kind = "page") =>
        /\ result.kind = "table"
        /\ LET df == result.frame
               body == resp.body
           IN \E g \in [1..Len(df) -> 1..Len(body)] :
                 /\ \A i, j \in 1..Len(df) : i < j => g[i] < g[j]
                 /\ \A k \in 1..Len(body) :
                       IsOption(body[k]) <=> \E i \in 1..Len(df) : g[i] = k
                 /\ \A i \in 1..Len(df) :
                       /\ df[i].Currency = body[g[i]].text
                       /\ df[i].Code = body[g[i]].value

C9_Witness ==
    /\ op = "catalog" /\ result.kind = "table"
    /\ Len(resp.body) = 2 /\ Len(result.frame) = 2
    /\ result.frame[1] = result.frame[2]

\* C10: nothing is retried.  get_data issues at most two requests, and exactly
\* the catalog request then the range request when it returns a table;
\* get_available_currencies and get_prices issue exactly one; a request that
\* fails ends the invocation.
C10_NoRetry ==
    /\ Len(reqs) <= 2
    /\ (op = "range" /\ result.kind = "table") =>
          (Len(reqs) = 2 /\ reqs[1].kind = "catalog" /\ reqs[2].kind = "range")
    /\ (op = "catalog" /\ pc = "done") => (Len(reqs) = 1 /\ reqs[1].kind = "catalog")
    /\ (op = "snapshot" /\ pc = "done" /\ self # NoSelf) =>
          (Len(reqs) = 1 /\ reqs[1].kind = "snapshot")
    /\ resp.kind \in {"conn_error", "url_error", "http_error"} =>
          (pc = "done" /\ reqs[Len(reqs)].kind =
              (IF resp.kind = "conn_error" THEN "catalog"
               ELSE IF op = "range" THEN "range" ELSE "snapshot"))

C10_Witness ==
    /\ op = "range" /\ result.kind = "table" /\ Len(reqs) = 2
    /\ Len(result.frame.ids) = 2

====
